---- MODULE Spec2Model ----
(***************************************************************************)
(* Model of the SteamCMD mod manager (SteamCmdManager): analyzeMods,       *)
(* writeModsToFile, downloadMods and downloadMod with its retry loop.      *)
(* Mods are the arrays [modId, steamId, modName] of the source, written    *)
(* as records.  The file system is reduced to what the code probes: the    *)
(* identifier-named directories under modsDirectory and under workshopDir, *)
(* the existence of modsDirectory itself, and the two audit files.         *)
(***************************************************************************)
EXTENDS Naturals, Sequences, FiniteSets

VARIABLES
    mods,           \* the array handed to downloadMods (steamId is updated in place)
    input,          \* the array as it was handed over (never changes in a run)
    installed,      \* steam ids with a directory under modsDirectory
    cached,         \* steam ids with an entry under workshopDir
    initInstalled,  \* installed, as it was when the run started
    initCached,     \* cached, as it was when the run started
    modsDirExists,  \* whether modsDirectory itself exists
    missingFile,    \* content of missing_mods.txt
    notFoundFile,   \* content of not_found_mods.txt
    wroteMissing,   \* this run wrote missing_mods.txt
    wroteNotFound,  \* this run wrote not_found_mods.txt
    overwrote,      \* files whose earlier, different, non-empty content a write of this run replaced
    pc,             \* where the run is
    i,              \* index of the for-loop of analyzeMods
    missingMods,    \* analyzeMods: indices (references) of the missing mods
    notFoundMods,   \* analyzeMods: indices (references) of the mods not found by name
    findResult,     \* how the last findModByName settled
    answer,         \* the line the user typed at the prompt
    k,              \* index of the for-loop over missingMods in downloadMods
    retryCount,     \* parameter of the latest downloadMod call
    attemptLog,     \* what each exec attempt of the latest downloadMod call came to
    lastExec,       \* what the last exec callback received
    dlSettled,      \* how the latest downloadMod call settled
    results,        \* downloadMods: the results array
    report,         \* what downloadMods returned
    path,           \* which return statement of downloadMods produced the report
    netCalls,       \* https.get requests issued in this run
    procCalls,      \* exec invocations in this run
    asked,          \* confirmation prompts shown in this run
    probed,         \* steam ids handed to isModInstalled / isModInSteamCmd by analyzeMods
    invokedIds,     \* steam ids for which exec was invoked
    dlCalls,        \* indices of the mods downloadMod was called for, in order
    steamCmdPresent,\* whether a file exists at steamCmdPath
    exitStatus,     \* exit status of the process, once pc = "exited"
    inFlight,       \* requests, processes and timers started and not yet called back
    callLog         \* what logError was handed for the latest downloadMod call

vars == <<mods, input, installed, cached, initInstalled, initCached, modsDirExists,
          missingFile, notFoundFile, wroteMissing, wroteNotFound, overwrote,
          pc, i, missingMods, notFoundMods, findResult, answer, k, retryCount,
          attemptLog, lastExec, dlSettled, results, report, path,
          netCalls, procCalls, asked, probed, invokedIds, dlCalls,
          steamCmdPresent, exitStatus, inFlight, callLog>>

mainVars == <<steamCmdPresent, exitStatus>>
fsVars == <<installed, cached, modsDirExists>>
fileVars == <<missingFile, notFoundFile, wroteMissing, wroteNotFound, overwrote>>
analysisVars == <<i, missingMods, notFoundMods, findResult, probed>>
callVars == <<retryCount, attemptLog, lastExec, dlSettled>>

(***************************************************************************)
(* Bounds and program constants                                            *)
(***************************************************************************)
MaxMods == 2

DefaultRetryCount == 3

SteamIds == {"1", "2"}

Mod(modId, steamId, modName) ==
    [modId |-> modId, steamId |-> steamId, modName |-> modName]

\* The mods a save can name: two share a modId, three have no steam id, one
\* of these is the game core and one has a name that is no valid regular
\* expression.
Catalog ==
    { Mod("a", "1", "ModA"), Mod("a", "2", "ModA2"),
      Mod("b", "0", "ModB"), Mod("c", "0", "Core"), Mod("d", "0", "Mod(D") }

\* names for which new RegExp(...) throws a SyntaxError
InvalidPatternNames == {"Mod(D"}

SeqsUpTo(S, n) == UNION { [1..m -> S] : m \in 0..n }

Inputs == SeqsUpTo(Catalog, MaxMods)

Answers == {"y", "Y", "n", "yes", ""}

NoFind == [kind |-> "none", settle |-> "none", value |-> "null", logged |-> <<>>]
NoExec == [exit |-> 0, marker |-> FALSE, payload |-> FALSE, copy |-> "none"]
NoReport == [returned |-> FALSE, success |-> FALSE, results |-> <<>>]
NoFile == [exists |-> FALSE, header |-> "", items |-> <<>>, count |-> 0]

(***************************************************************************)
(* Pure helpers                                                            *)
(***************************************************************************)
Range(s) == { s[j] : j \in 1..Len(s) }

\* String.prototype.toLowerCase on the answers and names of the model
ToLowerCase(s) ==
    CASE s = "Y" -> "y"
      [] s = "Core" -> "core"
      [] s = "RimWorld" -> "rimworld"
      [] s = "RimWorldCore" -> "rimworldcore"
      [] s = "GameCore" -> "gamecore"
      [] OTHER -> s

coreModNames == {"Core", "RimWorld", "RimWorldCore", "GameCore"}

IsCoreMod(mod) ==
    \E name \in coreModNames : ToLowerCase(mod.modName) = ToLowerCase(name)

\* fs.access(this.steamCmdPath, F_OK, err => resolve(!err))
ToolCheckAlwaysPasses == TRUE

isSteamCmdInstalled == steamCmdPresent

isModInstalled(steamId) == steamId \in installed

isModInSteamCmd(steamId) == steamId \in cached

\* writeModsToFile: the content built from the list, which replaces the file
WriteAppends(old, list, header) ==
    [exists |-> TRUE, header |-> header,
     items |-> old.items \o [j \in 1..Len(list) |-> mods[list[j]]],
     count |-> Len(list)]

FileContent(old, list, header) ==
    [exists |-> TRUE, header |-> header,
     items |-> [j \in 1..Len(list) |-> mods[list[j]]],
     count |-> Len(list)]

(***************************************************************************)
(* Result records of downloadMods.  item is the index of the mod the       *)
(* record was built from; absent JavaScript properties are "none".         *)
(***************************************************************************)
Result(j, success, skipped, reason, error) ==
    [item |-> j, id |-> mods[j].modId, name |-> mods[j].modName,
     success |-> success, skipped |-> skipped, reason |-> reason, error |-> error]

SkippedReportedAsFailed(list) ==
    [j \in 1..Len(list) |-> Result(list[j], FALSE, TRUE, "already installed", "none")]

\* mods.map(... success: true, skipped: true, reason: 'Уже установлен')
SkippedResults(list) ==
    [j \in 1..Len(list) |-> Result(list[j], TRUE, TRUE, "already installed", "none")]

\* mods.map(... success: false, error: 'Загрузка отменена пользователем')
CancelledOfMissingOnly ==
    [j \in 1..Len(missingMods) |->
        Result(missingMods[j], FALSE, FALSE, "none", "cancelled by user")]

CancelledResults ==
    [j \in 1..Len(mods) |-> Result(j, FALSE, FALSE, "none", "cancelled by user")]

\* mods.map(... success: false, error: 'Общая ошибка загрузки')
GeneralErrorOfAbsentOnly ==
    [j \in 1..Len(mods) |->
        IF isModInstalled(mods[j].steamId)
        THEN Result(j, TRUE, TRUE, "already installed", "none")
        ELSE Result(j, FALSE, FALSE, "none", "general error")]

GeneralErrorResults ==
    [j \in 1..Len(mods) |-> Result(j, FALSE, FALSE, "none", "general error")]

AllIdx == [j \in 1..Len(mods) |-> j]

\* mods.filter(mod => !missingMods.some(m => m[0] === mod[0]))
InstalledMods ==
    LET Kept(j) == ~ \E m \in 1..Len(missingMods) :
                        mods[missingMods[m]].modId = mods[j].modId
        F[j \in 0..Len(mods)] ==
            IF j = 0 THEN <<>>
            ELSE IF Kept(j) THEN Append(F[j - 1], j) ELSE F[j - 1]
    IN F[Len(mods)]

\* errorLogger.logError(modId, modName, error): the entry it is handed
LogEntry(id, name, error) == [id |-> id, name |-> name, error |-> error]

\* results.every(result => result.success)
Every(rs) == \A j \in 1..Len(rs) : rs[j].success

Returned(success, rs) == [returned |-> TRUE, success |-> success, results |-> rs]

\* the catch block of downloadMods
GeneralError ==
    /\ report' = Returned(FALSE, GeneralErrorResults)
    /\ path' = "error"
    /\ pc' = "done"

(***************************************************************************)
(* analyzeMods                                                             *)
(***************************************************************************)
\* !isInstalled && !isInSteamCmd
IsMissingIgnoringCache(steamId) == ~ isModInstalled(steamId)

IsMissing(steamId) == ~ isModInstalled(steamId) /\ ~ isModInSteamCmd(steamId)

\* lines 313-322, for mods[i] with the steam id it carries by then
Classify(steamId) ==
    /\ probed' = probed \cup {steamId}
    /\ missingMods' = IF IsMissing(steamId) THEN Append(missingMods, i) ELSE missingMods

\* an asynchronous operation started on behalf of mods[j]
Operation(op, j) == [op |-> op, item |-> j]

\* One iteration of the for-loop up to its first await (lines 289-301)
AnalyzeItem ==
    /\ pc = "analyze"
    /\ i <= Len(mods)
    /\ IF IsCoreMod(mods[i])
       THEN /\ i' = i + 1
            /\ UNCHANGED <<pc, netCalls, missingMods, probed, inFlight>>
       ELSE IF mods[i].steamId = "0"
       THEN /\ pc' = "find"
            /\ netCalls' = netCalls + 1
            /\ inFlight' = inFlight \cup {Operation("request", i)}
            /\ UNCHANGED <<i, missingMods, probed>>
       ELSE /\ Classify(mods[i].steamId)
            /\ i' = i + 1
            /\ UNCHANGED <<pc, netCalls, inFlight>>
    /\ UNCHANGED <<mods, input, fsVars, initInstalled, initCached, fileVars,
                   notFoundMods, findResult, answer, k, callVars, results, report,
                   path, procCalls, asked, invokedIds, dlCalls, mainVars, callLog>>

\* What the request of findModByName can come back with: the request fails,
\* the response begins and its stream breaks off before 'end', or the body is
\* read and holds a block titled modName with a link carrying an id, such a
\* block without a link, or no such block.
Responses ==
    {[transport |-> t, block |-> "none", value |-> "null"] : t \in {"error", "cut"}}
    \cup {[transport |-> "ok", block |-> "withId", value |-> v] : v \in SteamIds}
    \cup {[transport |-> "ok", block |-> b, value |-> "null"] : b \in {"noId", "absent"}}

\* findModByName (lines 54-103): how the promise settles for a response;
\* logged is what errorLogger.logError was handed on the way.  Only 'data'
\* and 'end' of the response are listened to (lines 61-65), so a response
\* that breaks off runs no handler and the promise stays pending.
FindModByNameQuietOnError(modName, resp) ==
    IF resp.transport = "error"
    THEN [kind |-> "requestError", settle |-> "reject", value |-> "null",
          logged |-> <<>>]
    ELSE IF resp.transport = "cut"
    THEN [kind |-> "streamError", settle |-> "pending", value |-> "null",
          logged |-> <<>>]
    ELSE IF modName \in InvalidPatternNames
    THEN [kind |-> "patternError", settle |-> "reject", value |-> "null",
          logged |-> <<LogEntry("0", modName, "patternError")>>]
    ELSE IF resp.block = "withId"
    THEN [kind |-> "found", settle |-> "resolve", value |-> resp.value,
          logged |-> <<>>]
    ELSE IF resp.block = "noId"
    THEN [kind |-> "noId", settle |-> "resolve", value |-> "null",
          logged |-> <<LogEntry("0", modName, "noId")>>]
    ELSE [kind |-> "noMatch", settle |-> "resolve", value |-> "null",
          logged |-> <<LogEntry("0", modName, "noMatch")>>]

FindModByName(modName, resp) ==
    IF resp.transport = "error"
    THEN [kind |-> "requestError", settle |-> "reject", value |-> "null",
          logged |-> <<LogEntry("0", modName, "requestError")>>]
    ELSE IF resp.transport = "cut"
    THEN [kind |-> "streamError", settle |-> "pending", value |-> "null",
          logged |-> <<>>]
    ELSE IF modName \in InvalidPatternNames
    THEN [kind |-> "patternError", settle |-> "reject", value |-> "null",
          logged |-> <<LogEntry("0", modName, "patternError")>>]
    ELSE IF resp.block = "withId"
    THEN [kind |-> "found", settle |-> "resolve", value |-> resp.value,
          logged |-> <<>>]
    ELSE IF resp.block = "noId"
    THEN [kind |-> "noId", settle |-> "resolve", value |-> "null",
          logged |-> <<LogEntry("0", modName, "noId")>>]
    ELSE [kind |-> "noMatch", settle |-> "resolve", value |-> "null",
          logged |-> <<LogEntry("0", modName, "noMatch")>>]

\* The request of findModByName is over: its promise settles and analyzeMods
\* can resume, or no handler ran and analyzeMods waits on for good
FindSettles ==
    /\ pc = "find"
    /\ \E resp \in Responses : findResult' = FindModByName(mods[i].modName, resp)
    /\ inFlight' = inFlight \ {Operation("request", i)}
    /\ pc' = IF findResult'.settle = "pending" THEN "stalled" ELSE "found"
    /\ UNCHANGED <<mods, input, fsVars, initInstalled, initCached, fileVars,
                   i, missingMods, notFoundMods, probed, answer, k, callVars,
                   results, report, path, netCalls, procCalls, asked, invokedIds,
                   dlCalls, mainVars, callLog>>

\* mod[1] = foundSteamId
BindNothing(mod, foundSteamId) == mod

Bind(mod, foundSteamId) == [mod EXCEPT !.steamId = foundSteamId]

\* analyzeMods resumes after the await of line 301 (lines 303-322); a rejection
\* leaves analyzeMods and is caught by downloadMods (lines 449-460)
AnalyzeResume ==
    /\ pc = "found"
    /\ findResult' = NoFind
    /\ IF findResult.settle = "reject"
       THEN /\ GeneralError
            /\ UNCHANGED <<mods, i, missingMods, notFoundMods, probed>>
       ELSE IF findResult.value # "null"
       THEN /\ mods' = [mods EXCEPT ![i] = Bind(mods[i], findResult.value)]
            /\ Classify(findResult.value)
            /\ i' = i + 1
            /\ pc' = "analyze"
            /\ UNCHANGED <<notFoundMods, report, path>>
       ELSE /\ notFoundMods' = Append(notFoundMods, i)
            /\ i' = i + 1
            /\ pc' = "analyze"
            /\ UNCHANGED <<mods, missingMods, probed, report, path>>
    /\ UNCHANGED <<input, fsVars, initInstalled, initCached, fileVars, answer, k,
                   callVars, results, netCalls, procCalls, asked, invokedIds, dlCalls,
                   mainVars, inFlight, callLog>>

(***************************************************************************)
(* writeModsToFile, and the rest of downloadMods up to the prompt          *)
(***************************************************************************)
\* What fs.promises.writeFile can do to the file
WriteOutcomes == {"written", "failedUntouched", "failedTruncated"}

Truncated(header) == [exists |-> TRUE, header |-> "", items |-> <<>>, count |-> 0]

AfterWrite(old, list, header, outcome) ==
    CASE outcome = "written" -> FileContent(old, list, header)
      [] outcome = "failedTruncated" -> Truncated(header)
      [] OTHER -> old

\* the write removed an item that only the old content had
Replaces(old, new) == \E m \in Range(old.items) : m \notin Range(new.items)

\* missingMods.length === 0
NothingMissingNorNotFound == Len(missingMods) = 0 /\ Len(notFoundMods) = 0

NothingToDownload == Len(missingMods) = 0

\* lines 372-387: the report when nothing is missing, otherwise the prompt
AfterAnalysis ==
    IF NothingToDownload
    THEN /\ report' = Returned(TRUE, SkippedResults(AllIdx))
         /\ path' = "allInstalled"
         /\ pc' = "done"
         /\ asked' = asked
    ELSE /\ asked' = asked + 1
         /\ pc' = "ask"
         /\ UNCHANGED <<report, path>>

\* line 326: the first writeModsToFile of analyzeMods; a failure rejects
\* analyzeMods, which downloadMods catches
WriteMissingFile ==
    /\ pc = "analyze"
    /\ i > Len(mods)
    /\ \E outcome \in WriteOutcomes :
         /\ missingFile' = AfterWrite(missingFile, missingMods, "missing", outcome)
         /\ wroteMissing' = (outcome = "written")
         /\ overwrote' = IF outcome = "written" /\ Replaces(missingFile, missingFile')
                         THEN overwrote \cup {"missing"} ELSE overwrote
         /\ IF outcome = "written"
            THEN /\ pc' = "write2"
                 /\ UNCHANGED <<report, path>>
            ELSE GeneralError
    /\ UNCHANGED <<mods, input, fsVars, initInstalled, initCached, notFoundFile,
                   wroteNotFound, analysisVars, answer, k, callVars, results,
                   netCalls, procCalls, asked, invokedIds, dlCalls, mainVars,
                   inFlight, callLog>>

\* line 327: the second writeModsToFile, then analyzeMods returns and
\* downloadMods goes on to line 372
WriteNotFoundFile ==
    /\ pc = "write2"
    /\ \E outcome \in WriteOutcomes :
         /\ notFoundFile' = AfterWrite(notFoundFile, notFoundMods, "notFound", outcome)
         /\ wroteNotFound' = (outcome = "written")
         /\ overwrote' = IF outcome = "written" /\ Replaces(notFoundFile, notFoundFile')
                         THEN overwrote \cup {"notFound"} ELSE overwrote
         /\ IF outcome = "written"
            THEN AfterAnalysis
            ELSE GeneralError /\ asked' = asked
    /\ UNCHANGED <<mods, input, fsVars, initInstalled, initCached, missingFile,
                   wroteMissing, analysisVars, answer, k, callVars, results,
                   netCalls, procCalls, invokedIds, dlCalls, mainVars, inFlight,
                   callLog>>

\* answer.toLowerCase() !== 'y' is the decline test of line 398
IsExactlyLowerY(a) == a = "y"

IsAffirmative(a) == ToLowerCase(a) = "y"

\* lines 393-395: readline hands over the line the user typed
UserAnswers ==
    /\ pc = "ask"
    /\ \E a \in Answers : answer' = a
    /\ pc' = "answered"
    /\ UNCHANGED <<mods, input, fsVars, initInstalled, initCached, fileVars,
                   analysisVars, k, callVars, results, report, path, netCalls,
                   procCalls, asked, invokedIds, dlCalls, mainVars, inFlight,
                   callLog>>

\* lines 396-412: downloadMods resumes with the answer; past the test of line
\* 398 the answer is not read again
AfterAnswer ==
    /\ pc = "answered"
    /\ IF IsAffirmative(answer)
       THEN /\ pc' = "download"
            /\ answer' = "none"
            /\ UNCHANGED <<report, path>>
       ELSE /\ report' = Returned(FALSE, CancelledResults)
            /\ path' = "declined"
            /\ pc' = "done"
            /\ answer' = answer
    /\ UNCHANGED <<mods, input, fsVars, initInstalled, initCached, fileVars,
                   analysisVars, k, callVars, results, netCalls, procCalls, asked,
                   invokedIds, dlCalls, mainVars, inFlight, callLog>>

(***************************************************************************)
(* downloadMod: one call is a chain of attempts, each a promise executor   *)
(* (lines 146-192), an exec callback (lines 194-274) and, on a retry, a    *)
(* timer (lines 204-208)                                                   *)
(***************************************************************************)
Pending == [state |-> "pending", error |-> "none"]
Resolved == [state |-> "resolved", error |-> "none"]
Rejected(error) == [state |-> "rejected", error |-> error]

\* the mod of the current downloadMod call
CurIdx == missingMods[k]
CurSteamId == mods[CurIdx].steamId

\* for (const mod of missingMods): the loop ends when the list is exhausted
LoopEndsAtFailure == k > Len(missingMods) \/ (k > 1 /\ ~ results[k - 1].success)

LoopIsOver == k > Len(missingMods)

\* downloadMod(mod, retryCount = 3) called as this.downloadMod(mod): the
\* count a call starts with, whatever count the call before it was left with
RetryCountCarriedOver(left) == left

RetryCountOfCall(left) == DefaultRetryCount

\* line 413-417: the loop of downloadMods calls downloadMod(mod)
CallDownloadMod ==
    /\ pc = "download"
    /\ ~ LoopIsOver
    /\ retryCount' = RetryCountOfCall(retryCount)
    /\ attemptLog' = <<>>
    /\ dlSettled' = Pending
    /\ dlCalls' = Append(dlCalls, CurIdx)
    /\ callLog' = <<>>
    /\ pc' = "attempt"
    /\ UNCHANGED <<mods, input, fsVars, initInstalled, initCached, fileVars,
                   analysisVars, answer, k, lastExec, results, report, path,
                   netCalls, procCalls, asked, invokedIds, mainVars, inFlight>>

\* What the copy of lines 160-171 can do: mkdirSync throws (only when
\* modsDirectory is absent), cpSync copies, or cpSync throws, before or after
\* it created the target directory.
CacheCopyOutcomes ==
    {"copied", "copyFailed", "copyFailedPartial"}
    \cup (IF modsDirExists THEN {} ELSE {"mkdirFailed"})

\* What lines 185-188 can do
MkdirOutcomes == IF modsDirExists THEN {"exists"} ELSE {"created", "mkdirFailed"}

\* the entry downloadMod and downloadMods hand to logError for the current mod
CallLogEntry(error) == LogEntry(mods[CurIdx].modId, mods[CurIdx].modName, error)

\* lines 148, 155 and 181: the way an attempt takes
AttemptPathOfFirstCheck(steamId) ==
    IF retryCount < DefaultRetryCount THEN "download"
    ELSE IF steamId \in installed THEN "installed"
    ELSE IF steamId \in cached THEN "cache"
    ELSE "download"

AttemptPathIgnoringCache(steamId) ==
    IF steamId \in installed THEN "installed" ELSE "download"

AttemptPathIgnoringInstalled(steamId) ==
    IF isModInSteamCmd(steamId) THEN "cache" ELSE "download"

AttemptPath(steamId) ==
    IF isModInstalled(steamId) THEN "installed"
    ELSE IF isModInSteamCmd(steamId) THEN "cache"
    ELSE "download"

\* The promise executor of downloadMod, lines 146-194
Attempt ==
    /\ pc = "attempt"
    /\ LET way == AttemptPath(CurSteamId)
       IN IF way = "installed"
          THEN /\ dlSettled' = Resolved
               /\ pc' = "settled"
               /\ UNCHANGED <<fsVars, procCalls, invokedIds, inFlight, callLog>>
          ELSE IF way = "cache"
          THEN /\ \E o \in CacheCopyOutcomes :
                    /\ modsDirExists' = (modsDirExists \/ o # "mkdirFailed")
                    /\ installed' = IF o \in {"copied", "copyFailedPartial"}
                                    THEN installed \cup {CurSteamId} ELSE installed
                    /\ dlSettled' = CASE o = "copied" -> Resolved
                                      [] o = "mkdirFailed" -> Rejected("mkdirError")
                                      [] OTHER -> Rejected("copyError")
                    /\ callLog' = IF o = "copied" THEN callLog
                                  ELSE Append(callLog, CallLogEntry(dlSettled'.error))
               /\ pc' = "settled"
               /\ UNCHANGED <<cached, procCalls, invokedIds, inFlight>>
          ELSE \E o \in MkdirOutcomes :
                    IF o = "mkdirFailed"
                    THEN /\ dlSettled' = Rejected("mkdirError")
                         /\ pc' = "settled"
                         /\ UNCHANGED <<fsVars, procCalls, invokedIds, inFlight,
                                        callLog>>
                    ELSE /\ modsDirExists' = TRUE
                         /\ procCalls' = procCalls + 1
                         /\ invokedIds' = invokedIds \cup {CurSteamId}
                         /\ inFlight' = inFlight \cup {Operation("exec", CurIdx)}
                         /\ pc' = "exec"
                         /\ UNCHANGED <<installed, cached, dlSettled, callLog>>
    /\ UNCHANGED <<mods, input, initInstalled, initCached, fileVars, analysisVars,
                   answer, k, retryCount, attemptLog, lastExec, results, report,
                   path, netCalls, asked, dlCalls, mainVars>>

\* What the exec callback can receive: the exit status, whether stdout holds
\* 'Success', whether the payload directory is there, and what cpSync does
\* with it (fields the code does not reach are left at one value).
ExecResults ==
    {[exit |-> 1, marker |-> m, payload |-> p, copy |-> "none"] : m, p \in BOOLEAN}
    \cup {[exit |-> 0, marker |-> FALSE, payload |-> p, copy |-> "none"] : p \in BOOLEAN}
    \cup {[exit |-> 0, marker |-> TRUE, payload |-> FALSE, copy |-> "none"]}
    \cup {[exit |-> 0, marker |-> TRUE, payload |-> TRUE, copy |-> c] :
             c \in {"ok", "fail", "failPartial"}}

\* lines 195-273: what an exec result amounts to
ExecKindByMarker(e) ==
    IF e.marker
    THEN IF e.payload
         THEN IF e.copy = "ok" THEN "ok" ELSE "copyError"
         ELSE "payloadMissing"
    ELSE IF e.exit # 0 THEN "execError" ELSE "noSuccessMarker"

ExecKind(e) ==
    IF e.exit # 0 THEN "execError"
    ELSE IF e.marker
    THEN IF e.payload
         THEN IF e.copy = "ok" THEN "ok" ELSE "copyError"
         ELSE "payloadMissing"
    ELSE "noSuccessMarker"

\* retryCount > 1
MayRetryOnceMore(rc) == rc > 0

MayRetry(rc) == rc > 1

\* what the callback does with the promise
RetriesAfterSuccess(kind, rc) ==
    IF kind = "copyError" THEN "reject"
    ELSE IF MayRetry(rc) THEN "retry"
    ELSE IF kind = "ok" THEN "resolve" ELSE "reject"

ResolvesOnMarkerAlone(kind, rc) ==
    IF kind \in {"ok", "payloadMissing"} THEN "resolve"
    ELSE IF kind = "copyError" THEN "reject"
    ELSE IF MayRetry(rc) THEN "retry" ELSE "reject"

AfterExec(kind, rc) ==
    IF kind = "ok" THEN "resolve"
    ELSE IF kind = "copyError" THEN "reject"
    ELSE IF MayRetry(rc) THEN "retry" ELSE "reject"

\* reject(error) of the attempt, handed on by .catch(reject) of every attempt
\* before it: the error a rejected call carries, given the attempts made
ErrorOfFirstAttempt(log) == log[1]

SurfacedError(log) == log[Len(log)]

\* whether the promise of the call settles in the callback: it does unless a
\* timer for the next attempt was set
SettlesBeforeRetry(next) == TRUE

SettlesNow(next) == next # "retry"

\* The callback of exec, lines 194-274
ExecCallback ==
    /\ pc = "exec"
    /\ \E e \in ExecResults :
         LET kind == ExecKind(e)
             next == AfterExec(kind, retryCount)
         IN /\ lastExec' = e
            /\ attemptLog' = Append(attemptLog, kind)
            /\ installed' = IF kind = "ok" \/ e.copy = "failPartial"
                            THEN installed \cup {CurSteamId} ELSE installed
            /\ dlSettled' = CASE next = "resolve" -> Resolved
                              [] next = "reject" -> Rejected(SurfacedError(attemptLog'))
                              [] OTHER -> dlSettled
            /\ callLog' = IF kind = "ok" THEN callLog
                          ELSE Append(callLog, CallLogEntry(kind))
            /\ inFlight' = (inFlight \ {Operation("exec", CurIdx)})
                           \cup (IF next = "retry"
                                 THEN {Operation("timer", CurIdx)} ELSE {})
            /\ pc' = IF SettlesNow(next) THEN "settled" ELSE "timer"
    /\ UNCHANGED <<mods, input, cached, modsDirExists, initInstalled, initCached,
                   fileVars, analysisVars, answer, k, retryCount, results, report,
                   path, netCalls, procCalls, asked, invokedIds, dlCalls, mainVars>>

\* The setTimeout callback: this.downloadMod(mod, retryCount - 1)
TimerFires ==
    /\ pc = "timer"
    /\ retryCount' = retryCount - 1
    /\ lastExec' = NoExec
    /\ inFlight' = inFlight \ {Operation("timer", CurIdx)}
    /\ pc' = "attempt"
    /\ UNCHANGED <<mods, input, fsVars, initInstalled, initCached, fileVars,
                   analysisVars, answer, k, attemptLog, dlSettled, results, report,
                   path, netCalls, procCalls, asked, invokedIds, dlCalls, mainVars,
                   callLog>>

\* lines 418-432: downloadMods resumes after await this.downloadMod(mod) and
\* pushes the result of the call that settled
RecordResult ==
    /\ pc = "settled"
    /\ results' = Append(results,
                         IF dlSettled.state = "resolved"
                         THEN Result(CurIdx, TRUE, FALSE, "none", "none")
                         ELSE Result(CurIdx, FALSE, FALSE, "none", dlSettled.error))
    /\ callLog' = IF dlSettled.state = "resolved" THEN callLog
                  ELSE Append(callLog, CallLogEntry(dlSettled.error))
    /\ k' = k + 1
    /\ lastExec' = NoExec
    /\ pc' = "download"
    /\ UNCHANGED <<mods, input, fsVars, initInstalled, initCached, fileVars,
                   analysisVars, answer, retryCount, attemptLog, dlSettled, report,
                   path, netCalls, procCalls, asked, invokedIds, dlCalls, mainVars,
                   inFlight>>

\* lines 435-448: the loop is over
ReturnReport ==
    /\ pc = "download"
    /\ LoopIsOver
    /\ results' = results \o SkippedResults(InstalledMods)
    /\ report' = Returned(Every(results'), results')
    /\ path' = "confirmed"
    /\ pc' = "done"
    /\ retryCount' = DefaultRetryCount
    /\ attemptLog' = <<>>
    /\ dlSettled' = Pending
    /\ callLog' = <<>>
    /\ UNCHANGED <<mods, input, fsVars, initInstalled, initCached, fileVars,
                   analysisVars, answer, k, lastExec, netCalls, procCalls, asked,
                   invokedIds, dlCalls, mainVars, inFlight>>

(***************************************************************************)
(* main: reads the save, checks for SteamCMD, runs downloadMods and exits  *)
(***************************************************************************)
\* what saveReader.extractModList() can do
ReadOutcomes == {"read", "readFailed"}

\* lines 5-27 of main, up to the call of downloadMods; a throw reaches the
\* catch of main, which exits with status 1
MainStart ==
    /\ pc = "main"
    /\ \E o \in ReadOutcomes :
         IF o = "read" /\ isSteamCmdInstalled
         THEN /\ pc' = "analyze"
              /\ exitStatus' = exitStatus
         ELSE /\ pc' = "exited"
              /\ exitStatus' = 1
    /\ UNCHANGED <<mods, input, fsVars, initInstalled, initCached, fileVars,
                   analysisVars, answer, k, callVars, results, report, path,
                   netCalls, procCalls, asked, invokedIds, dlCalls, steamCmdPresent,
                   inFlight, callLog>>

\* if (result.success) ... else process.exit(1)
ExitsZeroAlways(success) == 0

ExitStatus(success) == IF success THEN 0 ELSE 1

\* lines 29-51 of main: downloadMods returned; main prints the results and the
\* process ends
MainExit ==
    /\ pc = "done"
    /\ exitStatus' = ExitStatus(report.success)
    /\ pc' = "exited"
    /\ UNCHANGED <<mods, input, fsVars, initInstalled, initCached, fileVars,
                   analysisVars, answer, k, callVars, results, report, path,
                   netCalls, procCalls, asked, invokedIds, dlCalls, steamCmdPresent,
                   inFlight, callLog>>

(***************************************************************************)
(* One run of the program on the mods of a save                            *)
(***************************************************************************)
FreshRun(ms) ==
    /\ mods = ms
    /\ input = ms
    /\ initInstalled = installed
    /\ initCached = cached
    /\ wroteMissing = FALSE
    /\ wroteNotFound = FALSE
    /\ overwrote = {}
    /\ pc = "main"
    /\ exitStatus = 0
    /\ inFlight = {}
    /\ callLog = <<>>
    /\ i = 1
    /\ missingMods = <<>>
    /\ notFoundMods = <<>>
    /\ findResult = NoFind
    /\ answer = "none"
    /\ k = 1
    /\ retryCount = DefaultRetryCount
    /\ attemptLog = <<>>
    /\ lastExec = NoExec
    /\ dlSettled = Pending
    /\ results = <<>>
    /\ report = NoReport
    /\ path = "none"
    /\ netCalls = 0
    /\ procCalls = 0
    /\ asked = 0
    /\ probed = {}
    /\ invokedIds = {}
    /\ dlCalls = <<>>

\* The directories a run can start from: modsDirectory exists when a mod is
\* installed in it; a steam id both installed and cached is probed like an
\* installed one and is reached by the copy of downloadMod.
FileSystems ==
    { fs \in [installed : SUBSET SteamIds, cached : SUBSET SteamIds, dir : BOOLEAN] :
        /\ fs.installed \cap fs.cached = {}
        /\ fs.installed # {} => fs.dir }

Init ==
    /\ \E fs \in FileSystems :
         /\ installed = fs.installed
         /\ cached = fs.cached
         /\ modsDirExists = fs.dir
    /\ steamCmdPresent \in BOOLEAN
    /\ missingFile = NoFile
    /\ notFoundFile = NoFile
    /\ \E ms \in Inputs : FreshRun(ms)

Next ==
    \/ MainStart
    \/ AnalyzeItem
    \/ FindSettles
    \/ AnalyzeResume
    \/ WriteMissingFile
    \/ WriteNotFoundFile
    \/ UserAnswers
    \/ AfterAnswer
    \/ CallDownloadMod
    \/ Attempt
    \/ ExecCallback
    \/ TimerFires
    \/ RecordResult
    \/ ReturnReport
    \/ MainExit

Spec == Init /\ [][Next]_vars

(***************************************************************************)
(* Successive runs: the program is started again on another save; the      *)
(* directories and the audit files are what the earlier run left.          *)
(***************************************************************************)
InputsOfRuns == SeqsUpTo({m \in Catalog : m.modName \in {"ModA", "ModB"}}, MaxMods)

NewRun ==
    /\ pc = "exited"
    /\ \E ms \in InputsOfRuns :
         /\ mods' = ms
         /\ input' = ms
    /\ initInstalled' = installed
    /\ initCached' = cached
    /\ wroteMissing' = FALSE
    /\ wroteNotFound' = FALSE
    /\ overwrote' = {}
    /\ pc' = "main"
    /\ exitStatus' = 0
    /\ inFlight' = {}
    /\ callLog' = <<>>
    /\ i' = 1
    /\ missingMods' = <<>>
    /\ notFoundMods' = <<>>
    /\ findResult' = NoFind
    /\ answer' = "none"
    /\ k' = 1
    /\ retryCount' = DefaultRetryCount
    /\ attemptLog' = <<>>
    /\ lastExec' = NoExec
    /\ dlSettled' = Pending
    /\ results' = <<>>
    /\ report' = NoReport
    /\ path' = "none"
    /\ netCalls' = 0
    /\ procCalls' = 0
    /\ asked' = 0
    /\ probed' = {}
    /\ invokedIds' = {}
    /\ dlCalls' = <<>>
    /\ UNCHANGED <<fsVars, missingFile, notFoundFile, steamCmdPresent>>

InitOfRuns ==
    /\ \E fs \in FileSystems :
         /\ installed = fs.installed
         /\ cached = fs.cached
         /\ modsDirExists = fs.dir
    /\ steamCmdPresent \in BOOLEAN
    /\ missingFile = NoFile
    /\ notFoundFile = NoFile
    /\ \E ms \in InputsOfRuns : FreshRun(ms)

NextOfRuns == Next \/ NewRun

SpecOfRuns == InitOfRuns /\ [][NextOfRuns]_vars

(***************************************************************************)
(* One call downloadMod(mod) on its own, from any state of the two         *)
(* directories, while the tool and other programs write to them.           *)
(***************************************************************************)
CallMods == { m \in Catalog : m.steamId # "0" }

CallFileSystems ==
    { fs \in [installed : SUBSET SteamIds, cached : SUBSET SteamIds, dir : BOOLEAN] :
        fs.installed # {} => fs.dir }

InitOfCall ==
    /\ \E fs \in CallFileSystems :
         /\ installed = fs.installed
         /\ cached = fs.cached
         /\ modsDirExists = fs.dir
    /\ \E m \in CallMods :
         /\ mods = <<m>>
         /\ input = <<m>>
    /\ steamCmdPresent = TRUE
    /\ initInstalled = installed
    /\ initCached = cached
    /\ missingFile = NoFile
    /\ notFoundFile = NoFile
    /\ wroteMissing = FALSE
    /\ wroteNotFound = FALSE
    /\ overwrote = {}
    /\ pc = "attempt"
    /\ exitStatus = 0
    /\ inFlight = {}
    /\ callLog = <<>>
    /\ i = 2
    /\ missingMods = <<1>>
    /\ notFoundMods = <<>>
    /\ findResult = NoFind
    /\ answer = "none"
    /\ k = 1
    /\ retryCount = DefaultRetryCount
    /\ attemptLog = <<>>
    /\ lastExec = NoExec
    /\ dlSettled = Pending
    /\ results = <<>>
    /\ report = NoReport
    /\ path = "none"
    /\ netCalls = 0
    /\ procCalls = 0
    /\ asked = 0
    /\ probed = {}
    /\ invokedIds = {}
    /\ dlCalls = <<1>>

\* While the tool runs or the timer is pending, the directory of the mod
\* appears under modsDirectory or under workshopDir: the tool downloads
\* into its own tree, and the user or another program can copy the mod in.
DirectoriesChange ==
    /\ pc \in {"exec", "timer"}
    /\ \E c \in {"installed", "cached"} :
         /\ CurSteamId \notin (IF c = "installed" THEN installed ELSE cached)
         /\ installed' = IF c = "installed" THEN installed \cup {CurSteamId}
                                           ELSE installed
         /\ cached' = IF c = "cached" THEN cached \cup {CurSteamId} ELSE cached
         /\ modsDirExists' = (modsDirExists \/ c = "installed")
    /\ UNCHANGED <<mods, input, initInstalled, initCached, fileVars, analysisVars,
                   answer, k, callVars, results, report, path, netCalls, procCalls,
                   asked, invokedIds, dlCalls, mainVars, inFlight, callLog, pc>>

NextOfCall ==
    \/ Attempt
    \/ ExecCallback
    \/ TimerFires
    \/ DirectoriesChange

SpecOfCall == InitOfCall /\ [][NextOfCall]_vars

(***************************************************************************)
(* Properties                                                              *)
(***************************************************************************)
\* the results of the report built from mods[j]
OutcomesOf(j) == { r \in 1..Len(report.results) : report.results[r].item = j }

\* analyzeMods returned its two lists (both audit files were written)
AnalysisReturned == wroteMissing /\ wroteNotFound

\* writeFile failed: the run left analyzeMods after its loop
AuditWriteFailed == path = "error" /\ i > Len(mods)

\* mods[j] carries a steam id that was installed or cached when the run began
PresentBefore(j) == mods[j].steamId \in initInstalled \cup initCached

ToolFailures == {"execError", "noSuccessMarker", "payloadMissing"}

\* C1: the report of every run has exactly one outcome per input item.
C1_OneOutcomePerItem ==
    report.returned =>
        /\ Len(report.results) = Len(input)
        /\ \A j \in 1..Len(input) : Cardinality(OutcomesOf(j)) = 1

\* C2: in every report the success flag is the conjunction of the success
\* flags of its outcomes.
C2_SuccessIsConjunction ==
    report.returned => (report.success <=> Every(report.results))

\* C3, as stated: an item installed or cached before the run has a success
\* outcome, and exec is never invoked for it (runs whose analysis raised are
\* left aside).
C3_PresentItemSucceeds ==
    \A j \in 1..Len(mods) :
        PresentBefore(j) =>
            /\ mods[j].steamId \notin invokedIds
            /\ (report.returned /\ path # "error") =>
                 /\ OutcomesOf(j) # {}
                 /\ \A r \in OutcomesOf(j) : report.results[r].success

\* C3, amended: exec is never invoked for an item installed or cached before
\* the run, and every outcome reported for it is a success unless the user
\* declined or the analysis raised.
C3_PresentItemNeverDownloaded ==
    \A j \in 1..Len(mods) :
        PresentBefore(j) =>
            /\ mods[j].steamId \notin invokedIds
            /\ (report.returned /\ path \in {"allInstalled", "confirmed"}) =>
                 \A r \in OutcomesOf(j) : report.results[r].success

C3_Witness ==
    /\ report.returned
    /\ path = "confirmed"
    /\ procCalls > 0
    /\ \E j \in 1..Len(mods) :
         /\ PresentBefore(j)
         /\ \E r \in OutcomesOf(j) : report.results[r].success

\* C4: an item findModByName did not find is never probed nor downloaded, and
\* is listed in the not_found_mods.txt this run wrote (a failing writeFile
\* aside).
C4_NotFoundItemIsListed ==
    \A n \in 1..Len(notFoundMods) :
        LET j == notFoundMods[n]
        IN /\ mods[j].steamId = "0"
           /\ "0" \notin probed
           /\ j \notin Range(dlCalls)
           /\ (report.returned /\ ~ AuditWriteFailed) =>
                 /\ wroteNotFound
                 /\ mods[j] \in Range(notFoundFile.items)

\* C5: a downloadMod call whose attempts all end in a failure of the tool
\* invokes exec exactly 3 times before it rejects, never a 4th time.
C5_ThreeInvocationsThenFailure ==
    /\ Len(attemptLog) <= 3
    /\ (dlSettled.state = "rejected" /\ dlSettled.error \in ToolFailures) =>
          /\ Len(attemptLog) = 3
          /\ \A a \in 1..3 : attemptLog[a] \in ToolFailures
    /\ (dlSettled.state = "pending" /\ pc \in {"timer", "attempt"}) =>
          Len(attemptLog) < 3

C5_Witness ==
    /\ pc = "download"
    /\ dlSettled.state = "rejected"
    /\ attemptLog = <<"execError", "noSuccessMarker", "payloadMissing">>
    /\ ~ results[k - 1].success

\* C6: when the first attempt fails and the second succeeds, the call settles
\* at once as a success after exactly 2 invocations, and the outcome recorded
\* for the item is a success.
C6_SuccessOnSecondAttempt ==
    (/\ Len(attemptLog) >= 2
     /\ attemptLog[1] \in ToolFailures
     /\ attemptLog[2] = "ok") =>
        /\ Len(attemptLog) = 2
        /\ dlSettled = Resolved
        /\ pc \in {"settled", "download"}
        /\ pc = "download" =>
             /\ results[k - 1].item = missingMods[k - 1]
             /\ results[k - 1].success

C6_Witness ==
    /\ pc = "download"
    /\ Len(attemptLog) = 2
    /\ attemptLog[2] = "ok"
    /\ results[k - 1].success
    /\ procCalls = 2

\* C7: when the user declines, exec was never invoked and the report holds,
\* for each input item in turn, a failure with the cancelled text; the run
\* as a whole failed.
C7_DeclinedRun ==
    path = "declined" =>
        /\ ~ IsAffirmative(answer)
        /\ Len(missingMods) > 0
        /\ procCalls = 0
        /\ dlCalls = <<>>
        /\ ~ report.success
        /\ Len(report.results) = Len(input)
        /\ \A j \in 1..Len(input) :
             /\ report.results[j].item = j
             /\ ~ report.results[j].success
             /\ report.results[j].error = "cancelled by user"

C7_Witness ==
    /\ path = "declined"
    /\ Len(input) = 2
    /\ Len(missingMods) = 1
    /\ answer = "yes"

\* C8, as stated: a run whose missing set is empty makes no network call, no
\* exec invocation and no prompt, and reports every item as a skipped success.
C8_NothingMissingNoCalls ==
    (report.returned /\ AnalysisReturned /\ Len(missingMods) = 0) =>
        /\ netCalls = 0
        /\ procCalls = 0
        /\ asked = 0
        /\ report = Returned(TRUE, SkippedResults(AllIdx))

\* the mods analyzeMods looks up by name
LookedUp == { j \in 1..Len(input) : input[j].steamId = "0" /\ ~ IsCoreMod(input[j]) }

\* C8, amended: such a run makes no exec invocation and no prompt and reports
\* every item as a skipped success; it makes one network call for each item
\* without a steam id that is no core mod.
C8_NothingMissingNoDownload ==
    (report.returned /\ AnalysisReturned /\ Len(missingMods) = 0) =>
        /\ netCalls = Cardinality(LookedUp)
        /\ procCalls = 0
        /\ asked = 0
        /\ path = "allInstalled"
        /\ report = Returned(TRUE, SkippedResults(AllIdx))

C8_Witness ==
    /\ path = "allInstalled"
    /\ Len(input) = 2
    /\ netCalls = 1
    /\ Len(notFoundMods) = 1

\* C9: every run writes both audit files (a failing writeFile aside), and
\* writes them before it prompts and before it downloads.
C9_BothAuditFilesWritten ==
    /\ (report.returned /\ ~ AuditWriteFailed) => AnalysisReturned
    /\ (asked > 0 \/ procCalls > 0 \/ dlCalls # <<>>) => AnalysisReturned

\* C10: an audit file a run has written holds exactly the items of that run's
\* list, with their count, whatever an earlier run left in it.
C10_AuditFilesOverwritten ==
    /\ wroteMissing =>
         /\ missingFile.items = [j \in 1..Len(missingMods) |-> mods[missingMods[j]]]
         /\ missingFile.count = Len(missingMods)
         /\ missingFile.header = "missing"
    /\ wroteNotFound =>
         /\ notFoundFile.items = [j \in 1..Len(notFoundMods) |-> mods[notFoundMods[j]]]
         /\ notFoundFile.count = Len(notFoundMods)
         /\ notFoundFile.header = "notFound"

C10_Witness ==
    /\ pc = "done"
    /\ AnalysisReturned
    /\ overwrote = {"missing", "notFound"}

\* C11: when findModByName rejects for the item analyzeMods is at, the item is
\* added to the not-found list and the analysis goes on with the next item;
\* no report is returned at that point.
C11_ResolverErrorContinues ==
    [][(pc = "found" /\ findResult.settle = "reject") =>
          /\ notFoundMods' = Append(notFoundMods, i)
          /\ i' = i + 1
          /\ pc' = "analyze"
          /\ ~ report'.returned]_vars

\* C12: after the confirmation downloadMod is called for the missing items in
\* their order, one call per item whatever the earlier calls came to; the
\* result pushed for a call that rejected is a failure of that item carrying
\* the error of the rejection, and the report is built only when every
\* missing item had its call.
C12_EveryMissingItemIsTried ==
    /\ Len(dlCalls) <= Len(missingMods)
    /\ dlCalls = SubSeq(missingMods, 1, Len(dlCalls))
    /\ (pc = "download" /\ k > 1) =>
          /\ Len(dlCalls) = k - 1
          /\ results[k - 1].item = missingMods[k - 1]
          /\ results[k - 1].success = (dlSettled.state = "resolved")
          /\ dlSettled.state = "rejected" =>
                /\ results[k - 1].error = dlSettled.error
                /\ results[k - 1].error # "none"
    /\ path = "confirmed" =>
          /\ dlCalls = missingMods
          /\ \A m \in 1..Len(missingMods) : report.results[m].item = missingMods[m]

C12_Witness ==
    /\ path = "confirmed"
    /\ Len(missingMods) = 2
    /\ ~ report.results[1].success
    /\ report.results[1].error = "execError"
    /\ report.results[2].success

\* C13: downloadMods always comes to a return with a report, whatever
\* findModByName, the file system, the tool and the user do, and every
\* failure shows in a failure outcome of the report or in an entry handed to
\* the error log: a lookup that found nothing or failed is logged, a rejected
\* download is logged and is the failure outcome of its item, and a run
\* that a failing writeFile ended reports a failure outcome.
C13_FailuresAreReflected ==
    /\ pc \in {"done", "exited"} \/ ENABLED Next
    /\ pc = "done" => report.returned
    /\ (pc = "found" /\ findResult.kind # "found") =>
          findResult.logged = <<LogEntry("0", mods[i].modName, findResult.kind)>>
    /\ (pc = "download" /\ k > 1 /\ dlSettled.state = "rejected") =>
          /\ ~ results[k - 1].success
          /\ callLog # <<>>
          /\ callLog[Len(callLog)].error = results[k - 1].error
    /\ AuditWriteFailed =>
          \E r \in 1..Len(report.results) : ~ report.results[r].success

\* C14: when no file is at steamCmdPath the run never gets past main: no
\* lookup, no classification, no audit-file write, no prompt, no downloadMod
\* call and no exec happen, no report is built, and the process exits with a
\* non-zero status.
C14_AbsentToolAbortsRun ==
    ~ steamCmdPresent =>
        /\ pc \in {"main", "exited"}
        /\ netCalls = 0
        /\ i = 1
        /\ probed = {}
        /\ missingMods = <<>>
        /\ notFoundMods = <<>>
        /\ ~ wroteMissing
        /\ ~ wroteNotFound
        /\ asked = 0
        /\ dlCalls = <<>>
        /\ procCalls = 0
        /\ inFlight = {}
        /\ ~ report.returned
        /\ pc = "exited" => exitStatus # 0

C14_Witness ==
    /\ ~ steamCmdPresent
    /\ pc = "exited"
    /\ exitStatus = 1
    /\ Len(input) = 2
    /\ input[1].steamId = "0"
    /\ input[2].steamId \notin installed \cup cached

\* C15: the process exits with a non-zero status exactly when downloadMods
\* reported success false or main was left by a throw before any report, and
\* with status zero when the report says success.
C15_ExitStatusFollowsReport ==
    pc = "exited" =>
        /\ exitStatus \in {0, 1}
        /\ exitStatus # 0 <=> (~ report.returned \/ ~ report.success)
        /\ exitStatus = 0 <=> (report.returned /\ report.success)

C15_Witness ==
    /\ pc = "exited"
    /\ exitStatus = 0
    /\ path = "confirmed"
    /\ procCalls > 0

\* C16: at most one request, process or timer is in flight at any time; a
\* process or timer in flight belongs to the downloadMod call the loop is
\* waiting for, and nothing is in flight when that call has settled, when
\* the loop moves on to the next item or when a call starts.
C16_StrictlySerial ==
    /\ Cardinality(inFlight) <= 1
    /\ \A o \in inFlight :
          IF o.op = "request"
          THEN pc = "find" /\ o.item = i /\ dlCalls = <<>>
          ELSE /\ pc = (IF o.op = "exec" THEN "exec" ELSE "timer")
               /\ k <= Len(missingMods)
               /\ o.item = missingMods[k]
               /\ Len(dlCalls) = k
               /\ dlSettled.state = "pending"
    /\ pc \in {"download", "settled", "done", "exited"} => inFlight = {}
    /\ (pc = "attempt" /\ attemptLog = <<>>) => inFlight = {}

C16_Witness ==
    /\ Len(missingMods) = 2
    /\ Len(results) = 1
    /\ k = 2
    /\ inFlight = {Operation("exec", missingMods[2])}
    /\ procCalls = DefaultRetryCount + 1
    /\ ~ results[1].success
    /\ netCalls = 1

\* the run is past the test of line 398 on its confirmed side
Downloading == pc \in {"download", "attempt", "exec", "timer", "settled"}

\* C17: the prompt is shown at most once in a run and only after an analysis
\* that found a missing item; a downloadMod call or an exec happens only
\* past a prompt whose answer was y or Y; every other answer ends the run as
\* declined, with no exec.
C17_ConfirmedBeforeExec ==
    /\ [](/\ asked <= 1
          /\ asked = 1 => (AnalysisReturned /\ Len(missingMods) > 0)
          /\ pc \in {"ask", "answered"} => (asked = 1 /\ procCalls = 0)
          /\ (Downloading \/ procCalls > 0 \/ dlCalls # <<>>) =>
                (asked = 1 /\ path \in {"none", "confirmed"})
          /\ path = "declined" =>
                (answer \notin {"y", "Y"} /\ procCalls = 0 /\ dlCalls = <<>>))
    /\ [][/\ pc' = "answered" => (pc = "ask" /\ answer' \in Answers)
          /\ pc = "answered" =>
               IF answer \in {"y", "Y"}
               THEN pc' = "download" /\ path' = "none"
               ELSE pc' = "done" /\ path' = "declined"
          /\ (Downloading' /\ ~ Downloading) =>
               (pc = "answered" /\ answer \in {"y", "Y"})]_vars

C17_Witness ==
    /\ pc = "exec"
    /\ asked = 1
    /\ procCalls = 1
    /\ Len(input) = 2
    /\ Len(missingMods) = 1

\* C18: every attempt of a call, the first and each retry, goes by the state
\* of the directories at that moment: with the mod installed the call
\* resolves with no exec and no change; with the mod only in the cache the
\* attempt copies and settles with no exec; otherwise it invokes exec (or
\* fails to create modsDirectory).
C18_EveryAttemptRechecks ==
    [][pc = "attempt" =>
         /\ isModInstalled(CurSteamId) =>
               /\ dlSettled' = Resolved
               /\ pc' = "settled"
               /\ procCalls' = procCalls
               /\ UNCHANGED fsVars
         /\ (~ isModInstalled(CurSteamId) /\ isModInSteamCmd(CurSteamId)) =>
               /\ pc' = "settled"
               /\ procCalls' = procCalls
               /\ dlSettled'.state = "resolved" => CurSteamId \in installed'
         /\ (~ isModInstalled(CurSteamId) /\ ~ isModInSteamCmd(CurSteamId)) =>
               IF pc' = "exec"
               THEN procCalls' = procCalls + 1 /\ dlSettled' = Pending
               ELSE pc' = "settled" /\ dlSettled' = Rejected("mkdirError")]_vars

C18_Witness ==
    /\ pc = "settled"
    /\ dlSettled = Resolved
    /\ retryCount = DefaultRetryCount - 1
    /\ attemptLog = <<"noSuccessMarker">>
    /\ procCalls = 1
    /\ CurSteamId \in installed
    /\ CurSteamId \notin cached

\* C19: an attempt that finds the mod not installed but in the cache settles
\* the call there and then, with no exec and no timer: resolved when the copy
\* put the mod under modsDirectory, rejected with the error of the copy or of
\* mkdir otherwise, which is logged; a settled call takes no further attempt.
C19_CacheCopyPath ==
    [][/\ (/\ pc = "attempt"
           /\ ~ isModInstalled(CurSteamId)
           /\ isModInSteamCmd(CurSteamId)) =>
             /\ pc' = "settled"
             /\ procCalls' = procCalls
             /\ inFlight' = {}
             /\ retryCount' = retryCount
             /\ attemptLog' = attemptLog
             /\ cached' = cached
             /\ IF dlSettled'.state = "resolved"
                THEN CurSteamId \in installed' /\ callLog' = callLog
                ELSE /\ dlSettled'.state = "rejected"
                     /\ dlSettled'.error \in {"copyError", "mkdirError"}
                     /\ callLog' = Append(callLog, CallLogEntry(dlSettled'.error))
       /\ pc = "settled" =>
             /\ procCalls' = procCalls
             /\ retryCount' = retryCount
             /\ dlSettled' = dlSettled
             /\ pc' \notin {"attempt", "exec", "timer"}]_vars

C19_Witness ==
    /\ pc = "settled"
    /\ dlSettled = Rejected("copyError")
    /\ retryCount = DefaultRetryCount
    /\ attemptLog = <<>>
    /\ procCalls = 0
    /\ CurSteamId \in cached
    /\ CurSteamId \notin installed

\* C20: the callback of exec makes the attempt a success exactly when the
\* exit status is zero, stdout holds the marker, the payload directory is
\* there and its copy went through; then the call resolves with the mod
\* installed.  A non-zero exit, a missing marker and a missing payload are
\* each a failure of the attempt, and the call does not resolve on it.
C20_AttemptSuccessCondition ==
    [][(pc = "exec" /\ pc' # "exec") =>
         LET e == lastExec'
             kind == attemptLog'[Len(attemptLog')]
         IN /\ Len(attemptLog') = Len(attemptLog) + 1
            /\ kind = "ok" <=>
                 (e.exit = 0 /\ e.marker /\ e.payload /\ e.copy = "ok")
            /\ kind = "ok" =>
                 (dlSettled' = Resolved /\ CurSteamId \in installed')
            /\ kind # "ok" => dlSettled'.state # "resolved"
            /\ e.exit # 0 => kind = "execError"
            /\ (e.exit = 0 /\ ~ e.marker) => kind = "noSuccessMarker"
            /\ (e.exit = 0 /\ e.marker /\ ~ e.payload) => kind = "payloadMissing"]_vars

C20_Witness ==
    /\ pc = "settled"
    /\ lastExec = [exit |-> 0, marker |-> TRUE, payload |-> TRUE, copy |-> "ok"]
    /\ attemptLog = <<"payloadMissing", "ok">>
    /\ dlSettled = Resolved
    /\ CurSteamId \in installed

\* C21: a call for a mod that is in neither directory is rejected only when
\* its attempts are used up: a failure to create modsDirectory and a failure
\* to copy the payload are retried like any other failure of an attempt.
C21_EveryFailureIsRetried ==
    (/\ pc = "settled"
     /\ dlSettled.state = "rejected"
     /\ CurSteamId \notin initCached) =>
        /\ retryCount = 1
        /\ Len(attemptLog) = DefaultRetryCount

\* C22: every downloadMod call starts with the full count of 3, whatever the
\* calls before it used; a call invokes exec at most 3 times and a run at
\* most 3 times per call made, hence at most 3 times per missing item.
C22_AttemptsArePerCall ==
    /\ (pc = "attempt" /\ attemptLog = <<>>) => retryCount = DefaultRetryCount
    /\ retryCount \in 1..DefaultRetryCount
    /\ pc \in {"attempt", "exec"} => Len(attemptLog) = DefaultRetryCount - retryCount
    /\ Len(attemptLog) <= DefaultRetryCount
    /\ procCalls <= DefaultRetryCount * Len(dlCalls)
    /\ Len(dlCalls) <= Len(missingMods)
    /\ \A a, b \in 1..Len(dlCalls) : dlCalls[a] = dlCalls[b] => a = b

C22_Witness ==
    /\ pc = "download"
    /\ Len(missingMods) = 2
    /\ k = 3
    /\ procCalls = 2 * DefaultRetryCount
    /\ ~ results[1].success
    /\ ~ results[2].success

\* C23: a call rejected after its exec attempts carries the error of the last
\* attempt made, and that error is the error text of the item's outcome.
C23_LastErrorIsSurfaced ==
    (/\ dlSettled.state = "rejected"
     /\ attemptLog # <<>>
     /\ pc \in {"settled", "download"}) =>
        /\ dlSettled.error = attemptLog[Len(attemptLog)]
        /\ dlSettled.error \in ToolFailures \cup {"copyError"}
        /\ pc = "download" =>
              /\ results[k - 1].item = missingMods[k - 1]
              /\ ~ results[k - 1].success
              /\ results[k - 1].error = attemptLog[Len(attemptLog)]

C23_Witness ==
    /\ pc = "download"
    /\ k > 1
    /\ attemptLog = <<"payloadMissing", "noSuccessMarker", "execError">>
    /\ results[k - 1].error = "execError"

\* C24: once the response body was read findModByName resolves, with an
\* identifier or with null, and never rejects, whatever the name; only a
\* failure of the request rejects.
C24_OnlyRequestErrorsReject ==
    (pc = "found" /\ findResult.kind # "requestError") =>
        /\ findResult.settle = "resolve"
        /\ findResult.kind \in {"found", "noId", "noMatch"}

\* the lookups analyzeMods has started so far
LookupsStarted ==
    { j \in LookedUp :
        \/ j < i
        \/ j = i /\ (pc \in {"find", "found", "stalled"} \/ path = "error") }

\* C25: one request was issued for each lookup started, none more after a
\* failure; a lookup that settled with null or with a request error handed
\* exactly one entry to the error log, naming the searched name, and one that
\* returned an identifier handed none.
C25_OneRequestOneLogEntry ==
    /\ netCalls = Cardinality(LookupsStarted)
    /\ pc = "found" =>
          /\ findResult.kind \in {"noId", "noMatch", "requestError"} =>
                findResult.logged = <<LogEntry("0", input[i].modName, findResult.kind)>>
          /\ findResult.kind = "found" =>
                (findResult.logged = <<>> /\ findResult.value \in SteamIds)

C25_Witness ==
    /\ pc = "found"
    /\ i = 2
    /\ netCalls = 2
    /\ findResult.kind = "requestError"
    /\ Len(findResult.logged) = 1
    /\ notFoundMods = <<1>>

\* C26: a lookup whose request is over has settled, as exactly one of an
\* identifier, null or a transport error: a request that failed and a
\* response that broke off while being read both reject.
C26_FindAlwaysSettles ==
    (pc \in {"found", "stalled"} /\ findResult.kind # "patternError") =>
        /\ findResult.settle \in {"resolve", "reject"}
        /\ findResult.settle = "reject" <=>
              findResult.kind \in {"requestError", "streamError"}
        /\ findResult.settle = "resolve" <=>
              findResult.kind \in {"found", "noId", "noMatch"}
        /\ findResult.kind = "found" <=> findResult.value # "null"

\* C27: an identifier findModByName returned replaces the "0" of its item for
\* the rest of the run: it is the one probed, the one written to
\* missing_mods.txt and the one of the download command; "0" is never probed
\* and never downloaded, and nothing else of an item ever changes.
C27_ResolvedIdIsUsed ==
    /\ "0" \notin probed
    /\ "0" \notin invokedIds
    /\ \A j \in 1..Len(mods) :
          /\ mods[j].modId = input[j].modId
          /\ mods[j].modName = input[j].modName
          /\ mods[j].steamId # input[j].steamId =>
                /\ input[j].steamId = "0"
                /\ mods[j].steamId \in SteamIds
                /\ mods[j].steamId \in probed
                /\ j < i
    /\ \A m \in 1..Len(missingMods) :
          /\ mods[missingMods[m]].steamId \in probed \ {"0"}
          /\ wroteMissing => missingFile.items[m] = mods[missingMods[m]]
    /\ pc \in {"attempt", "exec", "timer", "settled"} => CurSteamId \in probed
    /\ pc = "exec" => CurSteamId \in invokedIds

C27_Witness ==
    /\ pc = "exec"
    /\ input[CurIdx].steamId = "0"
    /\ CurSteamId = "2"
    /\ invokedIds = {"2"}
    /\ missingFile.items = <<Mod("b", "2", "ModB")>>

\* C28: a run that has not returned its report can always take its next step
\* once the operation it waits for is over, and a downloadMod call is over
\* after at most 3 attempts: no run is left waiting for good.
C28_RunNeverWaitsForGood ==
    /\ pc \notin {"done", "exited"} => ENABLED Next
    /\ pc \in {"attempt", "exec", "timer"} => Len(attemptLog) < DefaultRetryCount
    /\ Len(attemptLog) <= DefaultRetryCount

\* C29: whenever a downloadMod call is resolved the mod has its directory
\* under modsDirectory, whether the call found it there, copied it from the
\* cache or downloaded and copied it.
C29_ResolvedMeansInstalled ==
    (pc = "settled" /\ dlSettled.state = "resolved") =>
        /\ isModInstalled(CurSteamId)
        /\ modsDirExists

C29_Witness ==
    /\ pc = "settled"
    /\ dlSettled = Resolved
    /\ procCalls = 0
    /\ CurSteamId \in cached
    /\ CurSteamId \notin initInstalled
    /\ CurSteamId \in installed
    /\ ~ initInstalled = installed

\* mods[j] went through the probes of analyzeMods and was found in the cache
\* only
ClassifiedCached(j) ==
    /\ j < i
    /\ ~ IsCoreMod(mods[j])
    /\ mods[j].steamId \in initCached \ initInstalled

\* C30, as stated: an item found in the cache only is not put in the missing
\* list, downloadMod is never called for it, and when the run returns it is
\* still not installed while its outcome is a skipped success with the reason
\* already installed (runs whose analysis raised are left aside).
C30_CachedItemSkippedSuccess ==
    \A j \in 1..Len(mods) :
        ClassifiedCached(j) =>
            /\ j \notin Range(missingMods)
            /\ j \notin Range(dlCalls)
            /\ mods[j].steamId \notin invokedIds
            /\ (report.returned /\ path # "error") =>
                 /\ ~ isModInstalled(mods[j].steamId)
                 /\ OutcomesOf(j) # {}
                 /\ \A r \in OutcomesOf(j) :
                       /\ report.results[r].success
                       /\ report.results[r].skipped
                       /\ report.results[r].reason = "already installed"

\* C30, amended: such an item is not put in the missing list, downloadMod is
\* never called for it and it is still not installed when the run returns;
\* every outcome reported for it by a run that went through, with or without
\* downloads, is a skipped success with the reason already installed, and
\* every outcome reported for it by a declined run is the failure cancelled
\* by user.
C30_CachedItemIsNeverCopied ==
    \A j \in 1..Len(mods) :
        ClassifiedCached(j) =>
            /\ j \notin Range(missingMods)
            /\ j \notin Range(dlCalls)
            /\ mods[j].steamId \notin invokedIds
            /\ ~ isModInstalled(mods[j].steamId)
            /\ isModInSteamCmd(mods[j].steamId)
            /\ (report.returned /\ path \in {"allInstalled", "confirmed"}) =>
                 \A r \in OutcomesOf(j) :
                       /\ report.results[r].success
                       /\ report.results[r].skipped
                       /\ report.results[r].reason = "already installed"
            /\ (report.returned /\ path = "declined") =>
                 \A r \in OutcomesOf(j) :
                       /\ ~ report.results[r].success
                       /\ report.results[r].error = "cancelled by user"

C30_Witness ==
    /\ report.returned
    /\ path = "confirmed"
    /\ Len(mods) = 2
    /\ missingMods = <<1>>
    /\ report.results[1].success
    /\ ClassifiedCached(2)
    /\ OutcomesOf(2) = {2}
    /\ report.results[2].reason = "already installed"
    /\ mods[2].steamId \notin installed

\* C31: in a run that is not declined and raises no error, every item left
\* without a steam id by findModByName is reported as a skipped success with
\* the reason already installed.
C31_NotFoundIsSkippedSuccess ==
    (report.returned /\ path \in {"allInstalled", "confirmed"}) =>
        \A j \in Range(notFoundMods) :
            /\ OutcomesOf(j) # {}
            /\ \A r \in OutcomesOf(j) :
                  /\ report.results[r].success
                  /\ report.results[r].skipped
                  /\ report.results[r].reason = "already installed"

\* an earlier downloadMod call of this run, for an item with the steam id of
\* the current call, was resolved
SameIdSucceededBefore ==
    \E m \in 1..(k - 1) :
        /\ m <= Len(results)
        /\ results[m].success
        /\ mods[missingMods[m]].steamId = CurSteamId

\* C32: when an earlier call for the same steam id was resolved, the attempt
\* of the current call finds the mod installed and resolves without an exec;
\* an exec ends in success only for a steam id that is not installed yet, and
\* no step of a run removes an installed mod, so a steam id is downloaded
\* with success at most once in a run.
C32_SameIdDownloadedOnce ==
    /\ [][(pc = "attempt" /\ SameIdSucceededBefore) =>
              /\ pc' = "settled"
              /\ dlSettled' = Resolved
              /\ procCalls' = procCalls
              /\ invokedIds' = invokedIds]_vars
    /\ [][(pc = "exec" /\ attemptLog'[Len(attemptLog')] = "ok") =>
              /\ CurSteamId \notin installed
              /\ CurSteamId \in installed']_vars
    /\ [][installed \subseteq installed']_vars

C32_Witness ==
    /\ pc = "settled"
    /\ k = 2
    /\ Len(missingMods) = 2
    /\ Len(results) = 1
    /\ results[1].success
    /\ mods[missingMods[1]].steamId = CurSteamId
    /\ dlSettled = Resolved
    /\ attemptLog = <<>>
    /\ procCalls = 1
    /\ CurSteamId \notin initInstalled

\* the input positions the outcomes of the report stand for, in report order
ReportedItems == [r \in 1..Len(report.results) |-> report.results[r].item]

\* the input positions that are not in the missing list, in input order
NotMissingInOrder ==
    LET F[j \in 0..Len(mods)] ==
            IF j = 0 THEN <<>>
            ELSE IF j \in Range(missingMods) THEN F[j - 1] ELSE Append(F[j - 1], j)
    IN F[Len(mods)]

Increasing(list) ==
    \A a, b \in 1..Len(list) : a < b => list[a] < list[b]

\* C33: the outcomes of a report stand in input order on the all-installed,
\* declined and general-error paths; on the confirmed path the outcomes of
\* the missing items come first, in input order, and the outcomes of all
\* other items follow, in input order.
C33_OutcomeOrder ==
    report.returned =>
        IF path = "confirmed"
        THEN /\ Increasing(missingMods)
             /\ ReportedItems = missingMods \o NotMissingInOrder
        ELSE ReportedItems = AllIdx

\* C34: a run whose analysis raised (findModByName rejected or a writeFile
\* failed) has shown no prompt, called downloadMod for nothing and started no
\* exec; it has returned a report with success false that holds, for every
\* input item in turn, a failure with the general error text, installed or
\* not.
C34_AnalysisErrorFailsEveryItem ==
    path = "error" =>
        /\ asked = 0
        /\ procCalls = 0
        /\ invokedIds = {}
        /\ dlCalls = <<>>
        /\ report.returned
        /\ ~ report.success
        /\ Len(report.results) = Len(input)
        /\ \A j \in 1..Len(input) :
              report.results[j] =
                  [item |-> j, id |-> input[j].modId, name |-> input[j].modName,
                   success |-> FALSE, skipped |-> FALSE, reason |-> "none",
                   error |-> "general error"]

C34_Witness ==
    /\ path = "error"
    /\ report.returned
    /\ Len(mods) = 2
    /\ i = 2
    /\ mods[1].steamId \in installed
    /\ netCalls = 1
    /\ ~ report.results[1].success
    /\ report.results[1].error = "general error"

====
